---- MODULE Spec2Model ----
(***************************************************************************)
(* OCSP certificate revocation verifier (network/ocsp.go).                 *)
(*                                                                         *)
(* NewOCSPConfig validates the three configuration strings and builds the  *)
(* OCSPConfig.  DefaultOCSPVerifier.Verify plans the list of OCSP servers  *)
(* to query from the config and the leaf certificate, queries them one at  *)
(* a time through OCSPClient.Query, and combines the answers into          *)
(* (confirmations, error).  One action models Verify from one blocking     *)
(* Query call to the next one (or to the return).                          *)
(***************************************************************************)
EXTENDS Integers, Sequences, FiniteSets, TLC

\* ---------------------------------------------------------------- bounds
\* Largest number of OCSP responder URLs embedded in the leaf certificate.
MaxCertServers == 2

\* ------------------------------------------------------------- constants
ocspRequiredYes == 0
ocspRequiredNo == 1
ocspRequiredAll == 2

ocspFromCertUse == 0
ocspFromCertTrust == 1
ocspFromCertPrefer == 2
ocspFromCertIgnore == 3

\* ---------------------------------------------------------------- inputs
\* Values of the uri argument: none, a well-formed one, one url.Parse rejects.
URIs == {"", "http://cfg", "%zz"}

\* Values of the required argument: the accepted ones and two rejected ones
\* (the switch compares case-sensitively).
RequiredStrings == {"yes", "true", "no", "false", "all", "YES", "maybe"}

\* Values of the fromCert argument: the accepted ones and a rejected one.
FromCertStrings == {"use", "trust", "prefer", "ignore", "never"}

\* URLs a certificate may list in its OCSPServer field; the configured URL
\* may be listed there too.
CertURLs == {"http://certA", "http://certB", "http://cfg"}

RECURSIVE SeqsUpTo(_, _)
SeqsUpTo(S, n) ==
    IF n = 0 THEN {<<>>}
    ELSE LET shorter == SeqsUpTo(S, n - 1)
         IN  shorter \cup {Append(s, x) : s \in shorter, x \in S}

\* x509.Certificate, reduced to the field Verify reads.
Certificates == [OCSPServer : SeqsUpTo(CertURLs, MaxCertServers)]

\* The issuer certificate is only handed on to Query.
IssuerCert == [OCSPServer |-> <<>>]

\* Certificate chains handed to Verify: empty, leaf only, leaf and issuer.
Chains ==
    {<<>>} \cup {<<c>> : c \in Certificates}
           \cup {<<c, IssuerCert>> : c \in Certificates}

\* ----------------------------------------------------------------- state
VARIABLES
    args,                  \* the strings NewOCSPConfig was called with
    config,                \* the *OCSPConfig NewOCSPConfig returned, or NilConfig
    configErr,             \* the error NewOCSPConfig returned, "nil" for none
    chain,                 \* the argument of the running / last Verify call
    serversToCheck,        \* Verify's planned requests
    i,                     \* Verify's loop index (1-based)
    confirmsByConfigOCSP,
    confirmsByCertOCSP,
    queried,               \* the Query calls that returned, with their outcome
    ret,                   \* what Verify returned
    pc,                    \* where the program is
    calls                  \* the Verify calls that run concurrently, by caller

vars == <<args, config, configErr, chain, serversToCheck, i,
          confirmsByConfigOCSP, confirmsByCertOCSP, queried, ret, pc, calls>>

NilConfig == [url |-> "", required |-> -1, fromCert |-> -1]

NoReturn == [count |-> 0, err |-> "nil"]

\* The callers (one per incoming connection) that share the verifier.
Calls == {1, 2}

\* The locals of a Verify call that has not started.
IdleCall ==
    [pc |-> "idle", chain |-> <<>>, serversToCheck |-> <<>>, i |-> 1,
     confirmsByConfigOCSP |-> 0, confirmsByCertOCSP |-> 0,
     queried |-> <<>>, ret |-> NoReturn]

\* ---------------------------------------------------------- NewOCSPConfig
\* url.Parse(uri) succeeds.
urlParseOK(uri) == uri # "%zz"

\* Mutant: the aliases "true" and "false" fall into the default branch.
requiredVal_NoAliases(required) ==
    CASE required = "yes" -> ocspRequiredYes
      [] required = "no"  -> ocspRequiredNo
      [] required = "all" -> ocspRequiredAll
      [] OTHER            -> -1

\* The first switch of NewOCSPConfig; -1 stands for the default branch.
requiredVal(required) ==
    CASE required \in {"yes", "true"} -> ocspRequiredYes
      [] required \in {"no", "false"} -> ocspRequiredNo
      [] required = "all"             -> ocspRequiredAll
      [] OTHER                        -> -1

\* The second switch of NewOCSPConfig; -1 stands for the default branch.
fromCertVal(fromCert) ==
    CASE fromCert = "use"    -> ocspFromCertUse
      [] fromCert = "trust"  -> ocspFromCertTrust
      [] fromCert = "prefer" -> ocspFromCertPrefer
      [] fromCert = "ignore" -> ocspFromCertIgnore
      [] OTHER               -> -1

\* The result of NewOCSPConfig(uri, required, fromCert): <<config, error>>.
NewOCSPConfigResult(uri, required, fromCert) ==
    IF uri # "" /\ ~urlParseOK(uri) THEN <<NilConfig, "url.Parse">>
    ELSE IF requiredVal(required) = -1 THEN <<NilConfig, "Invalid ocsp_required">>
    ELSE IF fromCertVal(fromCert) = -1 THEN <<NilConfig, "Invalid ocsp_from_cert">>
    ELSE <<[url |-> uri, required |-> requiredVal(required),
            fromCert |-> fromCertVal(fromCert)], "nil">>

NewOCSPConfig ==
    /\ pc = "new"
    /\ LET r == NewOCSPConfigResult(args.uri, args.required, args.fromCert)
       IN  /\ config' = r[1]
           /\ configErr' = r[2]
           /\ pc' = IF r[2] = "nil" THEN "ready" ELSE "configError"
    /\ UNCHANGED <<calls, args, chain, serversToCheck, i, confirmsByConfigOCSP,
                   confirmsByCertOCSP, queried, ret>>

\* ----------------------------------------------------------------- Verify
\* The candidates taken from the certificate, in its listing order.
FromCertServers(OCSPServer) ==
    [k \in 1..Len(OCSPServer) |-> [url |-> OCSPServer[k], fromCert |-> TRUE]]

\* Mutant: the certificate's servers are planned under every fromCert policy.
BuildServersToCheck_IgnoreNotHonoured(cfg, cert) ==
    LET fromCertificate == FromCertServers(cert.OCSPServer)
        serverToCheck == [url |-> cfg.url, fromCert |-> FALSE]
    IN  IF cfg.url # ""
        THEN IF cfg.fromCert = ocspFromCertPrefer \/ cfg.fromCert = ocspFromCertTrust
             THEN Append(fromCertificate, serverToCheck)
             ELSE <<serverToCheck>> \o fromCertificate
        ELSE fromCertificate

\* Mutant: the configured server is appended under every fromCert policy.
BuildServersToCheck_AlwaysAppend(cfg, cert) ==
    LET fromCertificate ==
            IF cfg.fromCert # ocspFromCertIgnore
            THEN FromCertServers(cert.OCSPServer)
            ELSE <<>>
        serverToCheck == [url |-> cfg.url, fromCert |-> FALSE]
    IN  IF cfg.url # ""
        THEN Append(fromCertificate, serverToCheck)
        ELSE fromCertificate

\* Mutant: the configured server is prepended under every fromCert policy.
BuildServersToCheck_AlwaysPrepend(cfg, cert) ==
    LET fromCertificate ==
            IF cfg.fromCert # ocspFromCertIgnore
            THEN FromCertServers(cert.OCSPServer)
            ELSE <<>>
        serverToCheck == [url |-> cfg.url, fromCert |-> FALSE]
    IN  IF cfg.url # ""
        THEN <<serverToCheck>> \o fromCertificate
        ELSE fromCertificate

\* Mutant: a certificate's server with the configured URL is left out (the
\* deduplication the TODO asks for).
BuildServersToCheck_Deduplicated(cfg, cert) ==
    LET fromCertificate ==
            IF cfg.fromCert # ocspFromCertIgnore
            THEN SelectSeq(FromCertServers(cert.OCSPServer),
                           LAMBDA s : s.url # cfg.url)
            ELSE <<>>
        serverToCheck == [url |-> cfg.url, fromCert |-> FALSE]
    IN  IF cfg.url # ""
        THEN IF cfg.fromCert = ocspFromCertPrefer \/ cfg.fromCert = ocspFromCertTrust
             THEN Append(fromCertificate, serverToCheck)
             ELSE <<serverToCheck>> \o fromCertificate
        ELSE fromCertificate

\* Mutant: only prefer appends the configured server, trust prepends it.
BuildServersToCheck_TrustPrepends(cfg, cert) ==
    LET fromCertificate ==
            IF cfg.fromCert # ocspFromCertIgnore
            THEN FromCertServers(cert.OCSPServer)
            ELSE <<>>
        serverToCheck == [url |-> cfg.url, fromCert |-> FALSE]
    IN  IF cfg.url # ""
        THEN IF cfg.fromCert = ocspFromCertPrefer
             THEN Append(fromCertificate, serverToCheck)
             ELSE <<serverToCheck>> \o fromCertificate
        ELSE fromCertificate

\* serversToCheck as Verify builds it from the config and the leaf certificate.
BuildServersToCheck(cfg, cert) ==
    LET fromCertificate ==
            IF cfg.fromCert # ocspFromCertIgnore
            THEN FromCertServers(cert.OCSPServer)
            ELSE <<>>
        serverToCheck == [url |-> cfg.url, fromCert |-> FALSE]
    IN  IF cfg.url # ""
        THEN IF cfg.fromCert = ocspFromCertPrefer \/ cfg.fromCert = ocspFromCertTrust
             THEN Append(fromCertificate, serverToCheck)
             ELSE <<serverToCheck>> \o fromCertificate
        ELSE fromCertificate

\* The Query call for serversToCheck[i] returned with `outcome`: "Fail" for
\* a non-nil error, else the response's Status, which ocsp.ParseResponse
\* sets to one of Good, Revoked, Unknown.
Answered(outcome) ==
    Append(queried, [url |-> serversToCheck[i].url,
                     fromCert |-> serversToCheck[i].fromCert,
                     outcome |-> outcome])

\* Verify returns (count, err).
Return(count, err) ==
    /\ ret' = [count |-> count, err |-> err]
    /\ pc' = "done"
    /\ i' = i

\* Mutant: the loop does not advance, the same server is queried again.
NextServer_SamePosition(byConfig, byCert) ==
    IF i + 1 <= Len(serversToCheck)
    THEN /\ i' = i
         /\ pc' = "query"
         /\ ret' = ret
    ELSE Return(byConfig + byCert, "nil")

\* The loop body ended (fell out of the switch, or continue) with the
\* counters at byConfig / byCert: next iteration, or the final return.
NextServer(byConfig, byCert) ==
    IF i + 1 <= Len(serversToCheck)
    THEN /\ i' = i + 1
         /\ pc' = "query"
         /\ ret' = ret
    ELSE Return(byConfig + byCert, "nil")

\* Verify is called with a chain that has no leaf or no issuer: chain[0] or
\* chain[1] panics (index out of range).
VerifyPanic ==
    /\ pc \in {"ready", "done"}
    /\ \E c \in Chains :
        /\ Len(c) < 2
        /\ chain' = c
    /\ pc' = "panic"
    /\ serversToCheck' = <<>>
    /\ i' = 1
    /\ confirmsByConfigOCSP' = 0
    /\ confirmsByCertOCSP' = 0
    /\ queried' = <<>>
    /\ ret' = NoReturn
    /\ UNCHANGED <<calls, args, config, configErr>>

\* Mutant: with nothing to query, Verify returns an error unless required
\* is "no".
VerifyStart_NoServerIsAnError ==
    /\ pc \in {"ready", "done"}
    /\ \E c \in Chains :
        /\ Len(c) >= 2
        /\ chain' = c
        /\ serversToCheck' = BuildServersToCheck(config, c[1])
    /\ i' = 1
    /\ confirmsByConfigOCSP' = 0
    /\ confirmsByCertOCSP' = 0
    /\ queried' = <<>>
    /\ IF Len(serversToCheck') >= 1
       THEN pc' = "query" /\ ret' = NoReturn
       ELSE /\ pc' = "done"
            /\ ret' = IF config.required # ocspRequiredNo
                      THEN [count |-> 0, err |-> "No OCSP server to query"]
                      ELSE [count |-> 0, err |-> "nil"]
    /\ UNCHANGED <<calls, args, config, configErr>>

\* Verify is called: it plans the requests and issues the first Query, or
\* returns at once when there is nothing to query.
VerifyStart ==
    /\ pc \in {"ready", "done"}
    /\ \E c \in Chains :
        /\ Len(c) >= 2
        /\ chain' = c
        /\ serversToCheck' = BuildServersToCheck(config, c[1])
    /\ i' = 1
    /\ confirmsByConfigOCSP' = 0
    /\ confirmsByCertOCSP' = 0
    /\ queried' = <<>>
    /\ IF Len(serversToCheck') >= 1
       THEN pc' = "query" /\ ret' = NoReturn
       ELSE pc' = "done" /\ ret' = [count |-> 0, err |-> "nil"]
    /\ UNCHANGED <<calls, args, config, configErr>>

\* Mutant: a failed query is skipped under every required policy.
QueryFail_AlwaysContinue ==
    /\ pc = "query"
    /\ queried' = Answered("Fail")
    /\ NextServer(confirmsByConfigOCSP, confirmsByCertOCSP)
    /\ UNCHANGED <<calls, args, config, configErr, chain, serversToCheck,
                   confirmsByConfigOCSP, confirmsByCertOCSP>>

\* Mutant: the abort under required = all hands back the confirmations so far.
QueryFail_ReturnsConfirmations ==
    /\ pc = "query"
    /\ queried' = Answered("Fail")
    /\ IF config.required = ocspRequiredAll
       THEN Return(confirmsByConfigOCSP + confirmsByCertOCSP, "Cannot query OCSP server")
       ELSE NextServer(confirmsByConfigOCSP, confirmsByCertOCSP)
    /\ UNCHANGED <<calls, args, config, configErr, chain, serversToCheck,
                   confirmsByConfigOCSP, confirmsByCertOCSP>>

\* Mutant: a failed query is fatal unless required is "no", as Unknown is.
QueryFail_FatalUnlessNo ==
    /\ pc = "query"
    /\ queried' = Answered("Fail")
    /\ IF config.required # ocspRequiredNo
       THEN Return(0, "Cannot query OCSP server")
       ELSE NextServer(confirmsByConfigOCSP, confirmsByCertOCSP)
    /\ UNCHANGED <<calls, args, config, configErr, chain, serversToCheck,
                   confirmsByConfigOCSP, confirmsByCertOCSP>>

\* Query returned an error (transport or protocol).
QueryFail ==
    /\ pc = "query"
    /\ queried' = Answered("Fail")
    /\ IF config.required = ocspRequiredAll
       THEN Return(0, "Cannot query OCSP server")
       ELSE NextServer(confirmsByConfigOCSP, confirmsByCertOCSP)
    /\ UNCHANGED <<calls, args, config, configErr, chain, serversToCheck,
                   confirmsByConfigOCSP, confirmsByCertOCSP>>

\* Mutant: the else is lost, so every Good answer counts for the config
\* counter, and one from a certificate's server for the other counter too.
QueryGood_CountedTwice ==
    /\ pc = "query"
    /\ queried' = Answered("Good")
    /\ confirmsByCertOCSP' =
           IF serversToCheck[i].fromCert THEN confirmsByCertOCSP + 1
           ELSE confirmsByCertOCSP
    /\ confirmsByConfigOCSP' = confirmsByConfigOCSP + 1
    /\ NextServer(confirmsByConfigOCSP', confirmsByCertOCSP')
    /\ UNCHANGED <<calls, args, config, configErr, chain, serversToCheck>>

\* Mutant: the break leaves the loop, so under required other than all
\* Verify returns at the first Good answer.
QueryGood_ReturnsAtFirst ==
    /\ pc = "query"
    /\ queried' = Answered("Good")
    /\ confirmsByCertOCSP' =
           IF serversToCheck[i].fromCert THEN confirmsByCertOCSP + 1
           ELSE confirmsByCertOCSP
    /\ confirmsByConfigOCSP' =
           IF serversToCheck[i].fromCert THEN confirmsByConfigOCSP
           ELSE confirmsByConfigOCSP + 1
    /\ IF config.required # ocspRequiredAll
       THEN Return(confirmsByConfigOCSP' + confirmsByCertOCSP', "nil")
       ELSE NextServer(confirmsByConfigOCSP', confirmsByCertOCSP')
    /\ UNCHANGED <<calls, args, config, configErr, chain, serversToCheck>>

\* Query returned a response with Status ocsp.Good.  The break leaves the
\* switch only, so the loop goes on whatever config.required is.
QueryGood ==
    /\ pc = "query"
    /\ queried' = Answered("Good")
    /\ confirmsByCertOCSP' =
           IF serversToCheck[i].fromCert THEN confirmsByCertOCSP + 1
           ELSE confirmsByCertOCSP
    /\ confirmsByConfigOCSP' =
           IF serversToCheck[i].fromCert THEN confirmsByConfigOCSP
           ELSE confirmsByConfigOCSP + 1
    /\ NextServer(confirmsByConfigOCSP', confirmsByCertOCSP')
    /\ UNCHANGED <<calls, args, config, configErr, chain, serversToCheck>>

\* Mutant: Revoked is handled like Unknown, fatal only if required is not "no".
QueryRevoked_ToleratedWhenNotRequired ==
    /\ pc = "query"
    /\ queried' = Answered("Revoked")
    /\ IF config.required # ocspRequiredNo
       THEN Return(0, "Certificate was revoked")
       ELSE NextServer(confirmsByConfigOCSP, confirmsByCertOCSP)
    /\ UNCHANGED <<calls, args, config, configErr, chain, serversToCheck,
                   confirmsByConfigOCSP, confirmsByCertOCSP>>

\* Query returned a response with Status ocsp.Revoked.
QueryRevoked ==
    /\ pc = "query"
    /\ queried' = Answered("Revoked")
    /\ Return(0, "Certificate was revoked")
    /\ UNCHANGED <<calls, args, config, configErr, chain, serversToCheck,
                   confirmsByConfigOCSP, confirmsByCertOCSP>>

\* Mutant: Unknown is fatal only under required = yes.
QueryUnknown_FatalOnlyUnderYes ==
    /\ pc = "query"
    /\ queried' = Answered("Unknown")
    /\ IF config.required = ocspRequiredYes
       THEN Return(0, "OCSP server doesn't know about certificate")
       ELSE NextServer(confirmsByConfigOCSP, confirmsByCertOCSP)
    /\ UNCHANGED <<calls, args, config, configErr, chain, serversToCheck,
                   confirmsByConfigOCSP, confirmsByCertOCSP>>

\* Mutant: Unknown is fatal under every required policy.
QueryUnknown_AlwaysFatal ==
    /\ pc = "query"
    /\ queried' = Answered("Unknown")
    /\ Return(0, "OCSP server doesn't know about certificate")
    /\ UNCHANGED <<calls, args, config, configErr, chain, serversToCheck,
                   confirmsByConfigOCSP, confirmsByCertOCSP>>

\* Query returned a response with Status ocsp.Unknown.
QueryUnknown ==
    /\ pc = "query"
    /\ queried' = Answered("Unknown")
    /\ IF config.required # ocspRequiredNo
       THEN Return(0, "OCSP server doesn't know about certificate")
       ELSE NextServer(confirmsByConfigOCSP, confirmsByCertOCSP)
    /\ UNCHANGED <<calls, args, config, configErr, chain, serversToCheck,
                   confirmsByConfigOCSP, confirmsByCertOCSP>>

\* The loop of Verify as a function of the answers: answered[k] is the
\* server of the k-th query (url, fromCert) with the outcome of that query.
\* The result is what Verify returns once these answers are in, and the
\* number of queries it issued for it.
RECURSIVE LoopFrom(_, _, _, _, _)
LoopFrom(required, answered, k, byConfig, byCert) ==
    IF k > Len(answered)
    THEN [count |-> byConfig + byCert, err |-> "nil", queries |-> k - 1]
    ELSE CASE answered[k].outcome = "Fail" ->
                IF required = ocspRequiredAll
                THEN [count |-> 0, err |-> "Cannot query OCSP server", queries |-> k]
                ELSE LoopFrom(required, answered, k + 1, byConfig, byCert)
           [] answered[k].outcome = "Good" ->
                IF answered[k].fromCert
                THEN LoopFrom(required, answered, k + 1, byConfig, byCert + 1)
                ELSE LoopFrom(required, answered, k + 1, byConfig + 1, byCert)
           [] answered[k].outcome = "Revoked" ->
                [count |-> 0, err |-> "Certificate was revoked", queries |-> k]
           [] answered[k].outcome = "Unknown" ->
                IF required # ocspRequiredNo
                THEN [count |-> 0, err |-> "OCSP server doesn't know about certificate",
                      queries |-> k]
                ELSE LoopFrom(required, answered, k + 1, byConfig, byCert)

VerifyLoop(required, answered) == LoopFrom(required, answered, 1, 0, 0)

\* The other reading of the early exit (design note, reading (b)): the loop
\* of Verify with the break leaving the loop, so that under required other
\* than all the first Good answer ends the call.
RECURSIVE StopAtFirstFrom(_, _, _, _, _)
StopAtFirstFrom(required, answered, k, byConfig, byCert) ==
    IF k > Len(answered)
    THEN [count |-> byConfig + byCert, err |-> "nil", queries |-> k - 1]
    ELSE CASE answered[k].outcome = "Fail" ->
                IF required = ocspRequiredAll
                THEN [count |-> 0, err |-> "Cannot query OCSP server", queries |-> k]
                ELSE StopAtFirstFrom(required, answered, k + 1, byConfig, byCert)
           [] answered[k].outcome = "Good" ->
                LET cfgNow == IF answered[k].fromCert THEN byConfig ELSE byConfig + 1
                    certNow == IF answered[k].fromCert THEN byCert + 1 ELSE byCert
                IN  IF required # ocspRequiredAll
                    THEN [count |-> cfgNow + certNow, err |-> "nil", queries |-> k]
                    ELSE StopAtFirstFrom(required, answered, k + 1, cfgNow, certNow)
           [] answered[k].outcome = "Revoked" ->
                [count |-> 0, err |-> "Certificate was revoked", queries |-> k]
           [] answered[k].outcome = "Unknown" ->
                IF required # ocspRequiredNo
                THEN [count |-> 0, err |-> "OCSP server doesn't know about certificate",
                      queries |-> k]
                ELSE StopAtFirstFrom(required, answered, k + 1, byConfig, byCert)

StopAtFirstLoop(required, answered) == StopAtFirstFrom(required, answered, 1, 0, 0)

\* ---------------------------------------------------------- specification
Init ==
    /\ args \in [uri : URIs, required : RequiredStrings, fromCert : FromCertStrings]
    /\ config = NilConfig
    /\ configErr = "nil"
    /\ chain = <<>>
    /\ serversToCheck = <<>>
    /\ i = 1
    /\ confirmsByConfigOCSP = 0
    /\ confirmsByCertOCSP = 0
    /\ queried = <<>>
    /\ ret = NoReturn
    /\ pc = "new"
    /\ calls = [c \in Calls |-> IdleCall]

Next ==
    \/ NewOCSPConfig
    \/ VerifyPanic
    \/ VerifyStart
    \/ QueryFail
    \/ QueryGood
    \/ QueryRevoked
    \/ QueryUnknown

Spec == Init /\ [][Next]_vars


\* ------------------------------------------------------- concurrent calls
\* Verify has a value receiver and keeps the candidate list, the loop index
\* and the two counters in locals, so concurrent calls share the config
\* only.  calls[c] holds the locals of caller c's call; a step of one call
\* is interleaved with the steps of the others at the blocking Query.

\* Largest number of responder URLs in a certificate of a concurrent call.
MaxConcCertServers == 1

\* The URLs such a certificate may list.
ConcCertURLs == {"http://certA"}

ConcCertificates == [OCSPServer : SeqsUpTo(ConcCertURLs, MaxConcCertServers)]

\* Verify up to its first Query (or its return for an empty list), as the
\* new locals of the call.
CallStarted(cfg, c) ==
    LET servers == BuildServersToCheck(cfg, c[1])
    IN  [pc |-> IF Len(servers) >= 1 THEN "query" ELSE "done",
         chain |-> c,
         serversToCheck |-> servers,
         i |-> 1,
         confirmsByConfigOCSP |-> 0,
         confirmsByCertOCSP |-> 0,
         queried |-> <<>>,
         ret |-> IF Len(servers) >= 1 THEN NoReturn
                 ELSE [count |-> 0, err |-> "nil"]]

\* One iteration of the loop of Verify for the call with locals `call`: the
\* pending Query returned with `outcome`.
CallAnswered(cfg, call, outcome) ==
    LET server == call.serversToCheck[call.i]
        answered == Append(call.queried,
                           [url |-> server.url, fromCert |-> server.fromCert,
                            outcome |-> outcome])
        byCert == IF outcome = "Good" /\ server.fromCert
                  THEN call.confirmsByCertOCSP + 1 ELSE call.confirmsByCertOCSP
        byConfig == IF outcome = "Good" /\ ~server.fromCert
                    THEN call.confirmsByConfigOCSP + 1 ELSE call.confirmsByConfigOCSP
        err == CASE outcome = "Fail" /\ cfg.required = ocspRequiredAll ->
                      "Cannot query OCSP server"
                 [] outcome = "Revoked" -> "Certificate was revoked"
                 [] outcome = "Unknown" /\ cfg.required # ocspRequiredNo ->
                      "OCSP server doesn't know about certificate"
                 [] OTHER -> "nil"
    IN  IF err # "nil"
        THEN [call EXCEPT !.queried = answered, !.pc = "done",
                          !.ret = [count |-> 0, err |-> err]]
        ELSE IF call.i + 1 <= Len(call.serversToCheck)
        THEN [call EXCEPT !.queried = answered, !.i = call.i + 1,
                          !.confirmsByConfigOCSP = byConfig,
                          !.confirmsByCertOCSP = byCert]
        ELSE [call EXCEPT !.queried = answered, !.pc = "done",
                          !.confirmsByConfigOCSP = byConfig,
                          !.confirmsByCertOCSP = byCert,
                          !.ret = [count |-> byConfig + byCert, err |-> "nil"]]

\* Caller c calls Verify.
ConcVerifyStart(c) ==
    /\ pc = "ready"
    /\ calls[c].pc \in {"idle", "done"}
    /\ \E cert \in ConcCertificates :
        calls' = [calls EXCEPT ![c] = CallStarted(config, <<cert, IssuerCert>>)]
    /\ UNCHANGED <<args, config, configErr, chain, serversToCheck, i,
                   confirmsByConfigOCSP, confirmsByCertOCSP, queried, ret, pc>>

\* Mutant: the two counters are fields shared by the calls, so that a step
\* of one call sets them for every call.
ConcQueryReturns_SharedCounters(c) ==
    /\ pc = "ready"
    /\ calls[c].pc = "query"
    /\ \E outcome \in {"Fail", "Good", "Revoked", "Unknown"} :
        LET stepped == CallAnswered(config, calls[c], outcome)
        IN  calls' = [d \in Calls |->
                        IF d = c THEN stepped
                        ELSE [calls[d] EXCEPT
                                !.confirmsByConfigOCSP = stepped.confirmsByConfigOCSP,
                                !.confirmsByCertOCSP = stepped.confirmsByCertOCSP]]
    /\ UNCHANGED <<args, config, configErr, chain, serversToCheck, i,
                   confirmsByConfigOCSP, confirmsByCertOCSP, queried, ret, pc>>

\* The pending Query of caller c's call returns.
ConcQueryReturns(c) ==
    /\ pc = "ready"
    /\ calls[c].pc = "query"
    /\ \E outcome \in {"Fail", "Good", "Revoked", "Unknown"} :
        calls' = [calls EXCEPT ![c] = CallAnswered(config, calls[c], outcome)]
    /\ UNCHANGED <<args, config, configErr, chain, serversToCheck, i,
                   confirmsByConfigOCSP, confirmsByCertOCSP, queried, ret, pc>>

\* One config, built once from accepted arguments, shared by the callers.
ConcInit ==
    /\ Init
    /\ args.uri \in {"", "http://cfg"}
    /\ args.required \in {"yes", "no", "all"}
    /\ args.fromCert \in {"use", "trust", "prefer", "ignore"}

ConcNext ==
    \/ NewOCSPConfig
    \/ \E c \in Calls : ConcVerifyStart(c)
    \/ \E c \in Calls : ConcQueryReturns(c)

SpecConc == ConcInit /\ [][ConcNext]_vars

\* ------------------------------------------------------------ properties
\* The leaf certificate of the running / last Verify call.
Leaf == chain[1]

\* Verify is running or has returned (config and chain are those of the call).
InCall == pc \in {"query", "done"} /\ Len(chain) >= 2

\* The planned request for the configured server.
ConfigServer == [url |-> config.url, fromCert |-> FALSE]

HasOutcome(outcome) == \E k \in DOMAIN queried : queried[k].outcome = outcome

\* C1 - revocation veto: as soon as a queried responder answers Revoked,
\* Verify has returned a non-nil error and 0 confirmations, under every
\* required and fromCert policy and whatever was answered before.
C1_RevocationVeto ==
    \A k \in DOMAIN queried :
        queried[k].outcome = "Revoked" =>
            /\ pc = "done"
            /\ ret.err # "nil"
            /\ ret.count = 0

\* A call in which a responder answered Good and a later one Revoked.
C1_Witness ==
    /\ pc = "done"
    /\ Len(queried) >= 2
    /\ queried[1].outcome = "Good"
    /\ queried[Len(queried)].outcome = "Revoked"
    /\ config.required = ocspRequiredNo

\* C2 - with required = yes, a nil error comes with at least one
\* confirmation: some queried responder answered Good and the count is >= 1.
C2_YesNeedsConfirmation ==
    (pc = "done" /\ config.required = ocspRequiredYes /\ ret.err = "nil") =>
        /\ ret.count >= 1
        /\ HasOutcome("Good")

\* C3 - all-required strictness: under required = all a failed query is the
\* last one of the call, and Verify has returned (0, error) on it.
C3_AllRequiredStrictness ==
    config.required = ocspRequiredAll =>
        \A k \in DOMAIN queried :
            queried[k].outcome = "Fail" =>
                /\ k = Len(queried)
                /\ pc = "done"
                /\ ret = [count |-> 0, err |-> "Cannot query OCSP server"]

\* Under required = all, a responder answered Good and a later query failed.
C3_Witness ==
    /\ config.required = ocspRequiredAll
    /\ pc = "done"
    /\ Len(queried) >= 2
    /\ queried[1].outcome = "Good"
    /\ queried[Len(queried)].outcome = "Fail"

\* C4 - under required = all, a nil error means that every planned server
\* was queried, in order, that each answered Good, and that the count is the
\* length of the list.
C4_AllMeansEveryServerConfirmed ==
    (pc = "done" /\ config.required = ocspRequiredAll /\ ret.err = "nil") =>
        /\ Len(queried) = Len(serversToCheck)
        /\ \A k \in DOMAIN queried :
            /\ queried[k].outcome = "Good"
            /\ queried[k].url = serversToCheck[k].url
            /\ queried[k].fromCert = serversToCheck[k].fromCert
        /\ ret.count = Len(serversToCheck)

\* Under required = all, Verify returned nil for a list of several servers.
C4_Witness ==
    /\ pc = "done"
    /\ config.required = ocspRequiredAll
    /\ ret.err = "nil"
    /\ Len(serversToCheck) >= 2
    /\ Len(queried) >= 2

\* C5, required in {yes, all}: an Unknown answer is the last one of the
\* call, and Verify has returned (0, error) on it.
UnknownFatalWhenRequired ==
    config.required \in {ocspRequiredYes, ocspRequiredAll} =>
        \A k \in DOMAIN queried :
            queried[k].outcome = "Unknown" =>
                /\ k = Len(queried)
                /\ pc = "done"
                /\ ret.count = 0
                /\ ret.err # "nil"

\* C5, required = no: the step that receives an Unknown answer leaves both
\* counters alone and goes on to the next server, or returns a nil error
\* when there is none left.
UnknownStepTolerated ==
    (/\ pc = "query"
     /\ config.required = ocspRequiredNo
     /\ queried' = Answered("Unknown")) =>
        /\ confirmsByConfigOCSP' = confirmsByConfigOCSP
        /\ confirmsByCertOCSP' = confirmsByCertOCSP
        /\ IF i < Len(serversToCheck)
           THEN pc' = "query" /\ i' = i + 1
           ELSE /\ pc' = "done"
                /\ ret' = [count |-> confirmsByConfigOCSP + confirmsByCertOCSP,
                           err |-> "nil"]

\* C5, required = no: an error is never due to an Unknown answer (only a
\* Revoked answer produces one), and Unknown answers are not in the count.
UnknownNeverAnErrorWhenNotRequired ==
    (pc = "done" /\ config.required = ocspRequiredNo) =>
        /\ ret.err # "nil" => queried[Len(queried)].outcome = "Revoked"
        /\ ret.err = "nil" =>
              ret.count = Cardinality({k \in DOMAIN queried : queried[k].outcome = "Good"})

\* C5 - unknown tolerance.
C5_UnknownTolerance ==
    /\ []UnknownFatalWhenRequired
    /\ [][UnknownStepTolerated]_vars
    /\ []UnknownNeverAnErrorWhenNotRequired

\* Under required = no, an Unknown answer was followed by a further query
\* and a nil return.
C5_Witness ==
    /\ pc = "done"
    /\ config.required = ocspRequiredNo
    /\ Len(queried) >= 2
    /\ queried[1].outcome = "Unknown"
    /\ ret.err = "nil"

\* C6 - no partial success: a non-nil error is returned with count 0.
C6_NoPartialSuccess ==
    (pc = "done" /\ ret.err # "nil") => ret.count = 0

\* Verify returned an error after Good answers had been counted.
C6_Witness ==
    /\ pc = "done"
    /\ ret.err # "nil"
    /\ confirmsByConfigOCSP + confirmsByCertOCSP >= 1
    /\ HasOutcome("Good")

\* C7 - ignore policy: under fromCert = ignore the planned list is empty or
\* is the configured server alone, and no server taken from the
\* certificate is ever queried.
C7_IgnorePolicy ==
    (InCall /\ config.fromCert = ocspFromCertIgnore) =>
        /\ serversToCheck = (IF config.url # "" THEN <<ConfigServer>> ELSE <<>>)
        /\ \A k \in DOMAIN queried :
            /\ ~queried[k].fromCert
            /\ queried[k].url = config.url

\* Under fromCert = ignore, the certificate lists responders and the
\* configured server was queried.
C7_Witness ==
    /\ InCall
    /\ config.fromCert = ocspFromCertIgnore
    /\ Len(Leaf.OCSPServer) >= 1
    /\ config.url # ""
    /\ pc = "done"
    /\ Len(queried) = 1

\* C8 - use policy: under fromCert = use with a configured URL, no server
\* taken from the certificate is ever queried.
C8_UseOnlyWithoutConfiguredURL ==
    (InCall /\ config.fromCert = ocspFromCertUse /\ config.url # "") =>
        \A k \in DOMAIN queried : ~queried[k].fromCert

\* C9 - ordering under use / ignore: with a configured URL, the first
\* planned and the first issued query is the one to the configured URL.
C9_ConfiguredFirst ==
    (/\ InCall
     /\ config.fromCert \in {ocspFromCertUse, ocspFromCertIgnore}
     /\ config.url # "") =>
        /\ Len(serversToCheck) >= 1
        /\ serversToCheck[1] = ConfigServer
        /\ \A k \in 2..Len(serversToCheck) : serversToCheck[k].fromCert
        /\ Len(queried) >= 1 =>
              /\ queried[1].url = config.url
              /\ ~queried[1].fromCert
        /\ \A k \in DOMAIN queried : queried[k].fromCert => k > 1

\* Under fromCert = use, the configured server and then a server of the
\* certificate were queried.
C9_Witness ==
    /\ InCall
    /\ config.fromCert = ocspFromCertUse
    /\ config.url # ""
    /\ Len(queried) >= 2
    /\ queried[2].fromCert

\* C10 - ordering under prefer / trust: with a configured URL, the
\* configured server is the last one planned, the servers before it are the
\* certificate's in its listing order, and when the configured server has
\* been queried all of those were queried before it, in that order.
C10_ConfiguredLast ==
    (/\ InCall
     /\ config.fromCert \in {ocspFromCertPrefer, ocspFromCertTrust}
     /\ config.url # "") =>
        /\ Len(serversToCheck) = Len(Leaf.OCSPServer) + 1
        /\ serversToCheck[Len(serversToCheck)] = ConfigServer
        /\ \A k \in DOMAIN queried :
            IF queried[k].fromCert
            THEN /\ k <= Len(Leaf.OCSPServer)
                 /\ queried[k].url = Leaf.OCSPServer[k]
            ELSE /\ k = Len(Leaf.OCSPServer) + 1
                 /\ queried[k].url = config.url
                 /\ \A j \in 1..(k - 1) :
                     /\ queried[j].fromCert
                     /\ queried[j].url = Leaf.OCSPServer[j]

\* Under fromCert = prefer, two different servers of the certificate and
\* then the configured server were queried.
C10_Witness ==
    /\ InCall
    /\ config.fromCert = ocspFromCertPrefer
    /\ config.url # ""
    /\ Len(Leaf.OCSPServer) = 2
    /\ Leaf.OCSPServer[1] # Leaf.OCSPServer[2]
    /\ Len(queried) = 3
    /\ ~queried[3].fromCert

\* The queries of the call that answered Good, by origin of the server.
GoodAnswers(fromCert) ==
    {k \in DOMAIN queried :
        queried[k].outcome = "Good" /\ queried[k].fromCert = fromCert}

\* C11 - origin summation: each Good answer is in exactly one of the two
\* counters, the certificate counter iff the server comes from the
\* certificate, and a nil error is returned with the sum of the two, the
\* number of Good answers of the call.
C11_OriginSummation ==
    InCall =>
        /\ confirmsByCertOCSP = Cardinality(GoodAnswers(TRUE))
        /\ confirmsByConfigOCSP = Cardinality(GoodAnswers(FALSE))
        /\ (pc = "done" /\ ret.err = "nil") =>
              /\ ret.count = confirmsByConfigOCSP + confirmsByCertOCSP
              /\ ret.count = Cardinality(GoodAnswers(TRUE) \cup GoodAnswers(FALSE))

\* A nil return after a Good answer of each origin and an answer that is
\* not Good.
C11_Witness ==
    /\ pc = "done"
    /\ ret.err = "nil"
    /\ confirmsByCertOCSP = 1
    /\ confirmsByConfigOCSP = 1
    /\ Len(queried) = 3
    /\ ret.count = 2

\* The answered queries of the call without those that failed.
WithoutFailed(answered) == SelectSeq(answered, LAMBDA q : q.outcome # "Fail")

\* C12, one step: under required in {yes, no}, the step that receives a
\* failed query leaves both counters alone and goes on to the next server,
\* or returns a nil error when there is none left.
FailedQueryAbsorbed ==
    (/\ pc = "query"
     /\ config.required \in {ocspRequiredYes, ocspRequiredNo}
     /\ queried' = Answered("Fail")) =>
        /\ confirmsByConfigOCSP' = confirmsByConfigOCSP
        /\ confirmsByCertOCSP' = confirmsByCertOCSP
        /\ IF i < Len(serversToCheck)
           THEN pc' = "query" /\ i' = i + 1
           ELSE /\ pc' = "done"
                /\ ret' = [count |-> confirmsByConfigOCSP + confirmsByCertOCSP,
                           err |-> "nil"]

\* C12, the result: under required in {yes, no}, Verify returns what it
\* returns for the same answers with the failed servers left out, and an
\* error it returns is not due to a failed query.
FailedQueriesLeaveResult ==
    (pc = "done" /\ config.required \in {ocspRequiredYes, ocspRequiredNo}) =>
        LET without == VerifyLoop(config.required, WithoutFailed(queried))
        IN  /\ ret.count = without.count
            /\ ret.err = without.err
            /\ ret.err # "nil" => queried[Len(queried)].outcome # "Fail"

\* C12 - absorbed per-responder failures.
C12_FailuresAbsorbed ==
    /\ [][FailedQueryAbsorbed]_vars
    /\ []FailedQueriesLeaveResult

\* Under required = yes and fromCert = prefer, the certificate's server
\* failed, the configured one answered Good, and Verify returned (1, nil).
C12_Witness ==
    /\ pc = "done"
    /\ config.required = ocspRequiredYes
    /\ config.fromCert = ocspFromCertPrefer
    /\ Len(queried) = 2
    /\ queried[1].outcome = "Fail" /\ queried[1].fromCert
    /\ queried[2].outcome = "Good" /\ ~queried[2].fromCert
    /\ ret = [count |-> 1, err |-> "nil"]

\* The arguments NewOCSPConfig is specified to accept.
ArgsAccepted ==
    /\ args.required \in {"yes", "true", "no", "false", "all"}
    /\ args.fromCert \in {"use", "trust", "prefer", "ignore"}
    /\ (args.uri = "" \/ urlParseOK(args.uri))

\* C14 - validated construction: NewOCSPConfig returns a config and a nil
\* error iff the required string is one of yes/true/no/false/all, the
\* fromCert string one of use/trust/prefer/ignore and the URL is empty or
\* parses; else it returns an error and no config.  The config holds the
\* URL and the policies the strings stand for.
C14_ValidatedConstruction ==
    pc # "new" =>
        /\ (configErr = "nil") <=> ArgsAccepted
        /\ (config # NilConfig) <=> ArgsAccepted
        /\ (pc = "configError") <=> ~ArgsAccepted
        /\ ArgsAccepted =>
            /\ config.url = args.uri
            /\ (args.required \in {"yes", "true"}) <=> (config.required = ocspRequiredYes)
            /\ (args.required \in {"no", "false"}) <=> (config.required = ocspRequiredNo)
            /\ (args.required = "all") <=> (config.required = ocspRequiredAll)
            /\ (args.fromCert = "use") <=> (config.fromCert = ocspFromCertUse)
            /\ (args.fromCert = "trust") <=> (config.fromCert = ocspFromCertTrust)
            /\ (args.fromCert = "prefer") <=> (config.fromCert = ocspFromCertPrefer)
            /\ (args.fromCert = "ignore") <=> (config.fromCert = ocspFromCertIgnore)

\* NewOCSPConfig accepted the alias "false" with a URL and the policy trust.
C14_Witness ==
    /\ pc = "ready"
    /\ args = [uri |-> "http://cfg", required |-> "false", fromCert |-> "trust"]
    /\ config = [url |-> "http://cfg", required |-> ocspRequiredNo,
                 fromCert |-> ocspFromCertTrust]
    /\ configErr = "nil"

\* C15 - early stop on first confirmation: under required other than all,
\* a Good answer is the last query of the call, and Verify has returned a
\* nil error with that confirmation.
C15_StopAtFirstConfirmation ==
    (InCall /\ config.required # ocspRequiredAll) =>
        \A k \in DOMAIN queried :
            queried[k].outcome = "Good" =>
                /\ k = Len(queried)
                /\ pc = "done"
                /\ ret = [count |-> 1, err |-> "nil"]

\* Verify returned under required other than all, and every server it
\* queried answered Good.
GoodOnlyRun ==
    /\ InCall
    /\ pc = "done"
    /\ config.required # ocspRequiredAll
    /\ \A k \in DOMAIN queried : queried[k].outcome = "Good"

\* C16 as stated - on Good-only paths under required other than all, the
\* variant that keeps querying (the code) and the variant that stops at the
\* first confirmation return the same count.
C16_SameCountOnGoodOnlyPaths ==
    GoodOnlyRun => ret.count = StopAtFirstLoop(config.required, queried).count

\* C16 as amended - on Good-only paths under required other than all, both
\* variants return a nil error; the code queries every server and returns
\* their number, the stopping variant issues one query and returns 1 (none
\* and 0 for the empty list); so the counts are the same iff the list has at
\* most one server, and the two agree on whether there is a confirmation.
C16_GoodOnlyPathsCompared ==
    GoodOnlyRun =>
        LET stop == StopAtFirstLoop(config.required, queried)
            n == Len(serversToCheck)
        IN  /\ ret.err = "nil"
            /\ stop.err = "nil"
            /\ Len(queried) = n
            /\ ret.count = n
            /\ stop.count = (IF n = 0 THEN 0 ELSE 1)
            /\ stop.queries = (IF n = 0 THEN 0 ELSE 1)
            /\ (ret.count = stop.count) <=> (n <= 1)
            /\ (ret.count >= 1) <=> (stop.count >= 1)

\* A Good-only run over two servers, for which the code returns 2.
C16_Witness ==
    /\ GoodOnlyRun
    /\ Len(queried) = 2
    /\ ret = [count |-> 2, err |-> "nil"]

\* The k-th answer of the call is a fatal event: Revoked, Unknown under
\* required other than no, a failed query under required = all.
FatalAt(k) ==
    \/ queried[k].outcome = "Revoked"
    \/ queried[k].outcome = "Unknown" /\ config.required # ocspRequiredNo
    \/ queried[k].outcome = "Fail" /\ config.required = ocspRequiredAll

\* C17, states: the k-th query of a call is the one to the k-th planned
\* server, so no position is queried twice and there are never more queries
\* than servers; while Verify runs, one query, the next in the list, is
\* pending; a fatal event is the last query of its call and Verify has
\* returned an error on it; a nil return comes after the whole list.
QueriesFollowTheList ==
    InCall =>
        /\ Len(queried) <= Len(serversToCheck)
        /\ \A k \in DOMAIN queried :
            /\ queried[k].url = serversToCheck[k].url
            /\ queried[k].fromCert = serversToCheck[k].fromCert
            /\ FatalAt(k) => (k = Len(queried) /\ pc = "done" /\ ret.err # "nil")
        /\ pc = "query" => (i = Len(queried) + 1 /\ i <= Len(serversToCheck))
        /\ (pc = "done" /\ ret.err = "nil") => Len(queried) = Len(serversToCheck)

\* C17, steps: a step of a running call is the return of the one pending
\* query; it either returns from Verify or makes the next position pending.
\* A call that returned issues no further query.
OneQueryAtATime ==
    /\ pc = "query" =>
          /\ \E outcome \in {"Fail", "Good", "Revoked", "Unknown"} :
                queried' = Answered(outcome)
          /\ \/ pc' = "done"
             \/ pc' = "query" /\ i' = i + 1
          /\ i = Len(serversToCheck) => pc' = "done"
          /\ serversToCheck' = serversToCheck
    /\ pc = "done" => (queried' = queried \/ queried' = <<>>)

\* C17 - sequential, abort-final querying.
C17_SequentialAbortFinal ==
    /\ []QueriesFollowTheList
    /\ [][OneQueryAtATime]_vars

\* A call over three planned servers that a fatal event ended at the
\* second, the third never being queried.
C17_Witness ==
    /\ InCall
    /\ pc = "done"
    /\ Len(serversToCheck) = 3
    /\ Len(queried) = 2
    /\ queried[1].outcome = "Good"
    /\ FatalAt(2)

\* The number of positions of the sequence of URLs that hold u.
Occurrences(urls, u) == Cardinality({k \in DOMAIN urls : urls[k] = u})

\* The URLs of the planned servers, in order.
PlannedURLs == [k \in DOMAIN serversToCheck |-> serversToCheck[k].url]

PreferTrustTwin ==
    [config EXCEPT !.fromCert =
        IF @ = ocspFromCertPrefer THEN ocspFromCertTrust ELSE ocspFromCertPrefer]

\* C19 - prefer and trust are observationally identical: a call under one
\* of them plans the servers the call under the other plans for the same
\* certificate, so that with the same answers it issues the same queries,
\* and it returns what the loop returns under the other for them.
C19_PreferTrustIdentical ==
    (InCall /\ config.fromCert \in {ocspFromCertPrefer, ocspFromCertTrust}) =>
        LET twinServers == BuildServersToCheck(PreferTrustTwin, Leaf)
            twinAnswered ==
                [k \in DOMAIN queried |->
                    [url |-> twinServers[k].url,
                     fromCert |-> twinServers[k].fromCert,
                     outcome |-> queried[k].outcome]]
            twinResult == VerifyLoop(PreferTrustTwin.required, twinAnswered)
        IN  /\ serversToCheck = twinServers
            /\ queried = twinAnswered
            /\ pc = "done" =>
                  /\ ret.count = twinResult.count
                  /\ ret.err = twinResult.err
                  /\ Len(queried) = twinResult.queries

\* Under fromCert = trust with a configured URL, a server of the
\* certificate and then the configured one were queried, and Verify returned.
C19_Witness ==
    /\ InCall
    /\ pc = "done"
    /\ config.fromCert = ocspFromCertTrust
    /\ config.url # ""
    /\ Len(queried) = 2
    /\ queried[1].fromCert
    /\ ~queried[2].fromCert

CallGoodAnswers(c, fromCert) ==
    {k \in DOMAIN calls[c].queried :
        /\ calls[c].queried[k].outcome = "Good"
        /\ calls[c].queried[k].fromCert = fromCert}

\* C13, states: whatever the other calls did in between, the candidate
\* list, the queries, the counters and the result of caller c's call are
\* those of a call that runs alone with the shared config, c's certificate
\* and the answers c's queries received.
RunsAsIfAlone(c) ==
    LET call == calls[c]
        alone == VerifyLoop(config.required, call.queried)
    IN  call.pc \in {"query", "done"} =>
            /\ call.serversToCheck = BuildServersToCheck(config, call.chain[1])
            /\ Len(call.queried) <= Len(call.serversToCheck)
            /\ \A k \in DOMAIN call.queried :
                /\ call.queried[k].url = call.serversToCheck[k].url
                /\ call.queried[k].fromCert = call.serversToCheck[k].fromCert
            /\ call.confirmsByCertOCSP = Cardinality(CallGoodAnswers(c, TRUE))
            /\ call.confirmsByConfigOCSP = Cardinality(CallGoodAnswers(c, FALSE))
            /\ alone.queries = Len(call.queried)
            /\ call.pc = "query" =>
                  /\ alone.err = "nil"
                  /\ call.i = Len(call.queried) + 1
                  /\ call.i <= Len(call.serversToCheck)
            /\ call.pc = "done" =>
                  /\ call.ret.count = alone.count
                  /\ call.ret.err = alone.err
                  /\ call.ret.err = "nil" =>
                        Len(call.queried) = Len(call.serversToCheck)

\* C13, steps: once built the config is never changed, and a step of one
\* call leaves the locals of every other call alone.
ConfigSharedReadOnly ==
    /\ pc # "new" => config' = config
    /\ \A c \in Calls :
          calls'[c] # calls[c] =>
              \A d \in Calls \ {c} : calls'[d] = calls[d]

\* C13 - shared read-only configuration.
C13_SharedReadOnlyConfig ==
    /\ [](\A c \in Calls : RunsAsIfAlone(c))
    /\ [][ConfigSharedReadOnly]_vars

\* Caller 1's call returned 1 confirmation while caller 2's call, started
\* for another certificate, is waiting for its second query after a failed
\* first one.
C13_Witness ==
    /\ calls[1].pc = "done"
    /\ calls[1].ret = [count |-> 1, err |-> "nil"]
    /\ calls[2].pc = "query"
    /\ calls[2].chain # calls[1].chain
    /\ Len(calls[2].queried) = 1
    /\ calls[2].queried[1].outcome = "Fail"
    /\ calls[2].confirmsByConfigOCSP + calls[2].confirmsByCertOCSP = 0

====
